---- MODULE Spec2Model ----
(***************************************************************************)
(* A model of greppetto (src/greppetto.py): the matcher                    *)
(* find_pattern_in_string, the four MatchedLineFormatter classes and the   *)
(* scanner find_pattern_in_files.                                          *)
(*                                                                         *)
(* A Python str is a sequence of one-character strings; a match interval   *)
(* is a pair <<start, end>> of zero-based offsets.  A call's outcome is a  *)
(* record [exc, val]: exc = "none" and the returned value, or the name of  *)
(* the exception raised.                                                   *)
(***************************************************************************)
EXTENDS Integers, Sequences, FiniteSets, TLC

\* ------------------------------------------------------------------ bounds
MaxLineLen == 2
MaxInputLen == 3
MaxMatches == 2
MaxLines == 2

\* ------------------------------------------------- Python built-ins used
Min(a, b) == IF a < b THEN a ELSE b

\* The characters str.strip() removes that occur in the model's alphabet.
IsSpace(c) == c \in {" ", "\n"}

RECURSIVE LStrip(_)
LStrip(s) ==
    IF s = <<>> THEN <<>>
    ELSE IF IsSpace(Head(s)) THEN LStrip(Tail(s)) ELSE s

RECURSIVE RStrip(_)
RStrip(s) ==
    IF s = <<>> THEN <<>>
    ELSE IF IsSpace(s[Len(s)]) THEN RStrip(SubSeq(s, 1, Len(s) - 1)) ELSE s

\* str.strip() with no argument: whitespace is removed at BOTH ends.
Strip(s) == RStrip(LStrip(s))

Digits == <<"0", "1", "2", "3", "4", "5", "6", "7", "8", "9">>

\* str(n) for a natural number n.
RECURSIVE Str(_)
Str(n) ==
    IF n < 10 THEN <<Digits[n + 1]>>
    ELSE Str(n \div 10) \o <<Digits[(n % 10) + 1]>>

\* s[a:b] for a, b >= 0: both ends are clamped to len(s).
Slice(s, a, b) == SubSeq(s, Min(a, Len(s)) + 1, Min(b, Len(s)))

\* s[a:] for a >= 0.
SliceFrom(s, a) == SubSeq(s, Min(a, Len(s)) + 1, Len(s))

Ok(v) == [exc |-> "none", val |-> v]
Raise(e) == [exc |-> e, val |-> <<>>]

\* ------------------------------------------------------------ formatters
\* filename + ":" + str(line_number) + ":"
Prefix(filename, line_number) == filename \o <<":">> \o Str(line_number) \o <<":">>

DefaultFormat(filename, line_number, line, pattern_match_intervals) ==
    Ok(Strip(Prefix(filename, line_number) \o line))

CHAR_FORMAT_START_PURPLE == <<"ESC", "[", "9", "5", "m">>
CHAR_FORMAT_END == <<"ESC", "[", "0", "m">>

\* The assignment that ends the body of the Color formatter's loop.
LastMatchEnd_Stuck(last_match_end, interval) == last_match_end
LastMatchEnd(last_match_end, interval) == interval[2]

RECURSIVE ColorLoop(_, _, _, _, _)
ColorLoop(line, ivs, i, last_match_end, formatted_line) ==
    IF i > Len(ivs) THEN formatted_line \o SliceFrom(line, last_match_end)
    ELSE ColorLoop(line, ivs, i + 1, LastMatchEnd(last_match_end, ivs[i]),
                   formatted_line \o Slice(line, last_match_end, ivs[i][1])
                       \o CHAR_FORMAT_START_PURPLE
                       \o Slice(line, ivs[i][1], ivs[i][2])
                       \o CHAR_FORMAT_END)

ColorFormat(filename, line_number, line, pattern_match_intervals) ==
    Ok(ColorLoop(line, pattern_match_intervals, 1, 0, Prefix(filename, line_number)))

\* range(interval[0] + len(prefix), interval[1] + len(prefix))
CaretRange_NoPrefix(interval, prefix) == interval[1] .. (interval[2] - 1)
CaretRange(interval, prefix) ==
    (interval[1] + Len(prefix)) .. (interval[2] + Len(prefix) - 1)

\* Every index the nested loops assign "^" to.
CaretIndices(ivs, prefix) ==
    UNION {CaretRange(ivs[k], prefix) : k \in 1 .. Len(ivs)}

UnderscoreFormat(filename, line_number, line, pattern_match_intervals) ==
    LET prefix == Prefix(filename, line_number)
        formatted_line == prefix \o line
        idx == CaretIndices(pattern_match_intervals, prefix)
        underscored_line ==
            [i \in 1 .. Len(formatted_line) |-> IF (i - 1) \in idx THEN "^" ELSE " "]
    IN  IF \E i \in idx : i >= Len(formatted_line)
        THEN Raise("IndexError")
        ELSE Ok(formatted_line \o <<"\n">> \o underscored_line)

RECURSIVE MachineLoop(_, _, _, _, _)
MachineLoop(line, ivs, i, prefix, formatted_line) ==
    IF i > Len(ivs) THEN formatted_line
    ELSE MachineLoop(line, ivs, i + 1, prefix,
                     formatted_line \o prefix \o Str(ivs[i][1]) \o <<":">>
                         \o Slice(line, ivs[i][1], ivs[i][2]) \o <<"\n">>)

MachineFormat(filename, line_number, line, pattern_match_intervals) ==
    Ok(Strip(MachineLoop(line, pattern_match_intervals, 1,
                         Prefix(filename, line_number), <<>>)))

\* FormatterFactory.get_formatter(print_line_format).format(...): the four
\* formats find_pattern_in_files registers, any other selector is a ValueError.
Formats == {"DEFAULT", "COLOR", "UNDERSCORE", "MACHINE"}

Format(print_line_format, filename, line_number, line, ivs) ==
    CASE print_line_format = "DEFAULT" -> DefaultFormat(filename, line_number, line, ivs)
      [] print_line_format = "COLOR" -> ColorFormat(filename, line_number, line, ivs)
      [] print_line_format = "UNDERSCORE" -> UnderscoreFormat(filename, line_number, line, ivs)
      [] print_line_format = "MACHINE" -> MachineFormat(filename, line_number, line, ivs)
      [] OTHER -> Raise("ValueError")

\* --------------------------------------------------------------- matcher
\* re.compile(pattern) for patterns over literal characters, "*", "(" and ")":
\* a literal may be followed by one "*"; a "*" with nothing to repeat, a second
\* "*" and an unbalanced parenthesis are re.error.  The empty pattern compiles.
RECURSIVE CompilesFrom(_, _)
CompilesFrom(p, i) ==
    IF i > Len(p) THEN TRUE
    ELSE IF p[i] \in {"(", ")", "*"} THEN FALSE
    ELSE IF i + 1 <= Len(p) /\ p[i + 1] = "*"
         THEN IF i + 2 <= Len(p) /\ p[i + 2] = "*" THEN FALSE
              ELSE CompilesFrom(p, i + 2)
    ELSE CompilesFrom(p, i + 1)

Compiles(pattern) == CompilesFrom(pattern, 1)

\* The compiled pattern: a sequence of items [c, star].
RECURSIVE ItemsFrom(_, _)
ItemsFrom(p, i) ==
    IF i > Len(p) THEN <<>>
    ELSE IF i + 1 <= Len(p) /\ p[i + 1] = "*"
         THEN <<[c |-> p[i], star |-> TRUE]>> \o ItemsFrom(p, i + 2)
    ELSE <<[c |-> p[i], star |-> FALSE]>> \o ItemsFrom(p, i + 1)

\* How many times c repeats in s from offset pos on.
RECURSIVE Run(_, _, _)
Run(s, pos, c) ==
    IF pos < Len(s) /\ s[pos + 1] = c THEN 1 + Run(s, pos + 1, c) ELSE 0

\* The end of the match of items[i..] at offset pos, or -1.  A starred item is
\* greedy and backtracks from n repetitions down to none.  With must_advance the
\* match that starts at `start` may not be empty.
RECURSIVE MatchAt(_, _, _, _, _, _), TryStar(_, _, _, _, _, _, _)
MatchAt(items, i, s, pos, start, must_advance) ==
    IF i > Len(items)
    THEN IF must_advance /\ pos = start THEN -1 ELSE pos
    ELSE IF items[i].star
         THEN TryStar(items, i, s, pos, Run(s, pos, items[i].c), start, must_advance)
    ELSE IF pos < Len(s) /\ s[pos + 1] = items[i].c
         THEN MatchAt(items, i + 1, s, pos + 1, start, must_advance)
    ELSE -1

TryStar(items, i, s, pos, n, start, must_advance) ==
    LET r == MatchAt(items, i + 1, s, pos + n, start, must_advance)
    IN  IF r # -1 \/ n = 0 THEN r
        ELSE TryStar(items, i, s, pos, n - 1, start, must_advance)

\* The leftmost match at or after offset pos: <<start, end>>, or <<>> for none.
\* must_advance applies to the first offset tried only.
RECURSIVE Search(_, _, _, _)
Search(items, s, pos, must_advance) ==
    IF pos > Len(s) THEN <<>>
    ELSE LET r == MatchAt(items, 1, s, pos, pos, must_advance)
         IN  IF r # -1 THEN <<pos, r>> ELSE Search(items, s, pos + 1, FALSE)

\* (match.start(), match.end())
MatchInterval(match) == <<match[1], match[2]>>

\* Where finditer resumes after a match: at the match's end.
ResumeAt_Overlapping(match) == IF match[2] > match[1] THEN match[1] + 1 ELSE match[2]
ResumeAt(match) == match[2]

\* cre.finditer(input_string): after an empty match the next one may not be
\* empty at the same offset; an empty match may follow a non-empty one at its
\* end (the re module of Python 3.7 and later).
RECURSIVE FindIter(_, _, _, _)
FindIter(items, s, pos, must_advance) ==
    LET match == Search(items, s, pos, must_advance)
    IN  IF match = <<>> THEN <<>>
        ELSE <<MatchInterval(match)>>
                 \o FindIter(items, s, ResumeAt(match), match[2] = match[1])

find_pattern_in_string(input_string, pattern) ==
    IF ~Compiles(pattern) THEN Raise("re.error")
    ELSE Ok(FindIter(ItemsFrom(pattern, 1), input_string, 0, FALSE))

\* ----------------------------------------------------------------- state
VARIABLES
    files,              \* find_pattern_in_files' argument: [none, list]
    pattern,            \* its pattern argument
    print_line_format,  \* its format selector
    pc,                 \* where the scanner is: start, files, scan, stdin, done
    file_idx,           \* position in files of the file being scanned
    line_number,        \* the loop's line counter
    open,               \* positions in files whose file object is open
    consumed,           \* every line read so far: [h, raw], h = 0 for stdin
    text,               \* the text last passed to the matcher
    match_intervals,    \* the matcher's last outcome
    printed,            \* what print() has written, one entry per call
    err,                \* the exception that ended the run, or "none"
    stdin_eof,          \* sys.stdin has been read to its end
    args,               \* the arguments of a direct call of one function
    ret                 \* that call's outcome: [fn, exc, val]

vars == <<files, pattern, print_line_format, pc, file_idx, line_number, open,
          consumed, text, match_intervals, printed, err, stdin_eof, args, ret>>

scan_vars == <<files, pattern, print_line_format, pc, file_idx, line_number, open,
               consumed, text, match_intervals, printed, err, stdin_eof>>

\* ---------------------------------------------------------------- inputs
F1 == <<"f">>
F2 == <<" ", "g">>

None == [none |-> TRUE, list |-> <<>>]
List(l) == [none |-> FALSE, list |-> l]

FileArgs == {None, List(<<>>), List(<<F1>>), List(<<F1, F2>>), List(<<F2, F2>>)}

Patterns ==
    {<<"a">>, <<>>, <<"(">>, <<"a", "*">>, <<"a", "a">>, <<"a", " ">>, <<"*">>}

\* The patterns the scanner is run with: a literal, the empty pattern, one
\* that does not compile and one that matches the empty string.
ScanPatterns == {<<"a">>, <<>>, <<"(">>, <<"a", "*">>}

\* The lines a file or stdin may hold, each with its line terminator.
RawLines == {<<" ", "a", "a", " ", "\n">>, <<"b", "\n">>}

RECURSIVE SeqsUpTo(_, _)
SeqsUpTo(S, n) ==
    IF n = 0 THEN {<<>>}
    ELSE LET shorter == SeqsUpTo(S, n - 1)
         IN  shorter \cup {Append(q, x) : q \in shorter, x \in S}

Lines == SeqsUpTo({"a", " "}, MaxLineLen)

Intervals == {<<a, b>> : a \in 0 .. MaxLineLen, b \in 0 .. MaxLineLen}

IntervalLists == SeqsUpTo({iv \in Intervals : iv[1] <= iv[2]}, MaxMatches)

NoArgs ==
    [kind |-> "none", filename |-> <<>>, line_number |-> 0, line |-> <<>>,
     intervals |-> <<>>, pattern |-> <<>>]

FormatCalls ==
    {[kind |-> "format", filename |-> f, line_number |-> n, line |-> l,
      intervals |-> ivs, pattern |-> <<>>] :
        f \in {F1, F2}, n \in {1, 12}, l \in Lines, ivs \in IntervalLists}

InputStrings == SeqsUpTo({"a", " "}, MaxInputLen)

FindCalls ==
    {[kind |-> "find", filename |-> <<>>, line_number |-> 0, line |-> l,
      intervals |-> <<>>, pattern |-> p] : l \in InputStrings, p \in Patterns}

NoRet == [fn |-> "none", exc |-> "none", val |-> <<>>]

\* --------------------------------------------------------------- scanner
\* The scanner before its first step.
ScanStart ==
    /\ pc = "start"
    /\ file_idx = 1
    /\ line_number = 0
    /\ open = {}
    /\ consumed = <<>>
    /\ text = <<>>
    /\ match_intervals = Ok(<<>>)
    /\ printed = <<>>
    /\ err = "none"
    /\ stdin_eof = FALSE

Init ==
    /\ files \in FileArgs
    /\ pattern \in ScanPatterns
    /\ print_line_format \in Formats
    /\ ScanStart
    /\ args = NoArgs
    /\ ret = NoRet

\* enumerate(f, start=1)
EnumerateStart == 1

\* The line number enumerate gives the next line of the open file.
NextLineNumber_NoRestart(n, h) ==
    IF h > 1 /\ n = 0 THEN Len(consumed) + 1 ELSE n + 1
NextLineNumber(n, h) == IF n = 0 THEN EnumerateStart ELSE n + 1

\* Leaving the with block, normally or by an exception, closes the file.
WithExit_Leak(o, h, raised) == IF raised THEN o ELSE o \ {h}
WithExit(o, h, raised) == o \ {h}

\* `if files is not None`
UseFiles(fs) == ~fs.none

\* How many lines of source h have been read.
LinesRead(h) == Cardinality({k \in 1 .. Len(consumed) : consumed[k].h = h})

\* The source identifier of handle h.
SourceName(h) == IF h = 0 THEN <<"-">> ELSE files.list[h]

\* The factory is built and the formatter resolved; then the branch on files.
Start ==
    /\ pc = "start"
    /\ IF print_line_format \notin Formats
       THEN /\ err' = "ValueError"
            /\ pc' = "done"
       ELSE /\ err' = err
            /\ pc' = IF UseFiles(files) THEN "files" ELSE "stdin"
    /\ UNCHANGED <<files, pattern, print_line_format, file_idx, line_number, open,
                   consumed, text, match_intervals, printed, stdin_eof, args, ret>>

\* open(filename, 'r'): the file is there, or the open raises.
OpenFile ==
    /\ pc = "files"
    /\ file_idx <= Len(files.list)
    /\ \E exists \in BOOLEAN :
          IF exists
          THEN /\ open' = open \cup {file_idx}
               /\ pc' = "scan"
               /\ err' = err
          ELSE /\ open' = open
               /\ pc' = "done"
               /\ err' = "FileNotFoundError"
    /\ line_number' = 0
    /\ UNCHANGED <<files, pattern, print_line_format, file_idx, consumed, text,
                   match_intervals, printed, stdin_eof, args, ret>>

\* One turn of the loop body on the line `raw` of source h: strip, match, and
\* print the formatter's result when there is a match.  An exception of the
\* matcher or the formatter ends the run.
Body(h, raw, n) ==
    LET stripped == Strip(raw)
        m == find_pattern_in_string(stripped, pattern)
        out == Format(print_line_format, SourceName(h), n, stripped, m.val)
        raised == IF m.exc # "none" THEN m.exc
                  ELSE IF Len(m.val) > 0 THEN out.exc ELSE "none"
    IN  /\ line_number' = n
        /\ consumed' = Append(consumed, [h |-> h, raw |-> raw])
        /\ text' = stripped
        /\ match_intervals' = m
        /\ printed' = IF m.exc = "none" /\ Len(m.val) > 0 /\ out.exc = "none"
                      THEN Append(printed, out.val) ELSE printed
        /\ err' = raised
        /\ IF raised # "none"
           THEN /\ pc' = "done"
                /\ open' = IF h = 0 THEN open ELSE WithExit(open, h, TRUE)
           ELSE UNCHANGED <<pc, open>>

ScanLine ==
    /\ pc = "scan"
    /\ LinesRead(file_idx) < MaxLines
    /\ \E raw \in RawLines : Body(file_idx, raw, NextLineNumber(line_number, file_idx))
    /\ UNCHANGED <<files, pattern, print_line_format, file_idx, stdin_eof, args, ret>>

\* Reading the file or writing the output fails with an I/O error.
ScanFault ==
    /\ pc = "scan"
    /\ err' = "OSError"
    /\ open' = WithExit(open, file_idx, TRUE)
    /\ pc' = "done"
    /\ UNCHANGED <<files, pattern, print_line_format, file_idx, line_number, consumed,
                   text, match_intervals, printed, stdin_eof, args, ret>>

\* The file is exhausted: the with block ends, f.close() is called once more,
\* and the for loop moves to the next file name.
ScanEOF ==
    /\ pc = "scan"
    /\ open' = WithExit(open, file_idx, FALSE) \ {file_idx}
    /\ file_idx' = file_idx + 1
    /\ pc' = "files"
    /\ UNCHANGED <<files, pattern, print_line_format, line_number, consumed, text,
                   match_intervals, printed, err, stdin_eof, args, ret>>

\* The for loop over files is exhausted (at once when files is empty).
FilesDone ==
    /\ pc = "files"
    /\ file_idx > Len(files.list)
    /\ pc' = "done"
    /\ UNCHANGED <<files, pattern, print_line_format, file_idx, line_number, open,
                   consumed, text, match_intervals, printed, err, stdin_eof, args, ret>>

StdinLine ==
    /\ pc = "stdin"
    /\ LinesRead(0) < MaxLines
    /\ \E raw \in RawLines : Body(0, raw, line_number + 1)
    /\ UNCHANGED <<files, pattern, print_line_format, file_idx, stdin_eof, args, ret>>

StdinEOF ==
    /\ pc = "stdin"
    /\ stdin_eof' = TRUE
    /\ pc' = "done"
    /\ UNCHANGED <<files, pattern, print_line_format, file_idx, line_number, open,
                   consumed, text, match_intervals, printed, err, args, ret>>

Next ==
    \/ Start
    \/ OpenFile
    \/ ScanLine
    \/ ScanFault
    \/ ScanEOF
    \/ FilesDone
    \/ StdinLine
    \/ StdinEOF

Spec == Init /\ [][Next]_vars

\* ---------------------------------------------------------- direct calls
\* The functions called on their own, as the unit tests call them.
UnitInit ==
    /\ files = None
    /\ pattern = <<>>
    /\ print_line_format = "DEFAULT"
    /\ ScanStart
    /\ args \in FormatCalls \cup FindCalls
    /\ ret = NoRet

Return(fn, r) ==
    /\ ret' = [fn |-> fn, exc |-> r.exc, val |-> r.val]
    /\ UNCHANGED <<args, scan_vars>>

CallDefault ==
    /\ args.kind = "format" /\ ret.fn = "none"
    /\ Return("default",
              DefaultFormat(args.filename, args.line_number, args.line, args.intervals))

CallColor ==
    /\ args.kind = "format" /\ ret.fn = "none"
    /\ Return("color",
              ColorFormat(args.filename, args.line_number, args.line, args.intervals))

CallUnderscore ==
    /\ args.kind = "format" /\ ret.fn = "none"
    /\ Return("underscore",
              UnderscoreFormat(args.filename, args.line_number, args.line, args.intervals))

CallMachine ==
    /\ args.kind = "format" /\ ret.fn = "none"
    /\ Return("machine",
              MachineFormat(args.filename, args.line_number, args.line, args.intervals))

CallFind ==
    /\ args.kind = "find" /\ ret.fn = "none"
    /\ Return("find", find_pattern_in_string(args.line, args.pattern))

UnitNext ==
    \/ CallDefault
    \/ CallColor
    \/ CallUnderscore
    \/ CallMachine
    \/ CallFind

UnitSpec == UnitInit /\ [][UnitNext]_vars

\* ================================================================ claims
\* The pattern is one the specification rejects: empty, or not compilable.
BadPattern == pattern = <<>> \/ ~Compiles(pattern)

\* C1 (as claimed): a run with an empty or invalid pattern reads no line and
\* prints nothing, and when it ends it has ended with a compile error; the
\* matcher called with the empty pattern raises ValueError.
C1_BadPatternFailsBeforeReading ==
    BadPattern =>
        /\ consumed = <<>>
        /\ printed = <<>>
        /\ pc = "done" => err \in {"re.error", "ValueError"}
        /\ pattern = <<>> /\ text # <<>> => match_intervals.exc = "ValueError"

\* C2 (as claimed): a completed run with no named sources (files absent, or an
\* empty list) has read standard input to its end, and every line it read came
\* from stdin.
C2_NoSourcesReadsStdin ==
    (pc = "done" /\ err = "none" /\ (files.none \/ files.list = <<>>)) =>
        /\ stdin_eof
        /\ \A k \in 1 .. Len(consumed) : consumed[k].h = 0

\* The matcher was called directly and returned a list of intervals.
FindReturned == ret.fn = "find" /\ ret.exc = "none"

\* The returned list is sorted by start and no interval overlaps the next.
SortedDisjoint(ivs) ==
    \A k \in 1 .. Len(ivs) - 1 :
        ivs[k][1] <= ivs[k + 1][1] /\ ivs[k][2] <= ivs[k + 1][1]

\* C3 (as claimed, and granting C1 that the empty pattern is no pattern): every
\* interval find_pattern_in_string returns has 0 <= start < end <= len(line),
\* and the list is sorted by start with each end <= the next start.
C3_Original ==
    (FindReturned /\ args.pattern # <<>>) =>
        /\ \A k \in 1 .. Len(ret.val) :
              0 <= ret.val[k][1] /\ ret.val[k][1] < ret.val[k][2]
                  /\ ret.val[k][2] <= Len(args.line)
        /\ SortedDisjoint(ret.val)

\* C3 (amended): every interval find_pattern_in_string returns has
\* 0 <= start <= end <= len(line), start = end being a match of the empty
\* string, and the list is sorted by start with each end <= the next start.
C3_Intervals ==
    FindReturned =>
        /\ \A k \in 1 .. Len(ret.val) :
              0 <= ret.val[k][1] /\ ret.val[k][1] <= ret.val[k][2]
                  /\ ret.val[k][2] <= Len(args.line)
        /\ SortedDisjoint(ret.val)

\* C3 witness: a call that returned a match of several characters followed by
\* empty matches.
C3_Witness ==
    /\ FindReturned
    /\ Len(ret.val) >= 3
    /\ ret.val[1][2] - ret.val[1][1] >= 2
    /\ \E k \in 1 .. Len(ret.val) : ret.val[k][1] = ret.val[k][2]

\* C4: at most one source is open at any moment: none while the scanner is
\* between sources (about to open the next one) or has returned, normally or by
\* an exception, and only the source being scanned while it scans.
C4_AtMostOneOpen ==
    /\ Cardinality(open) <= 1
    /\ pc \in {"start", "files", "stdin", "done"} => open = {}
    /\ pc = "scan" => open = {file_idx}

\* C4 witness: the scan of the second source, after the first was scanned to
\* its end, failed partway: in the matcher, or with an I/O error after a line.
C4_Witness ==
    /\ pc = "done"
    /\ err \in {"OSError", "re.error"}
    /\ file_idx = 2
    /\ \E k \in 1 .. Len(consumed) : consumed[k].h = 1
    /\ \E k \in 1 .. Len(consumed) : consumed[k].h = 2

\* source + ":" + lineNumber + ":" + line, character for character.
PlainLine == args.filename \o <<":">> \o Str(args.line_number) \o <<":">> \o args.line

\* C5 (as claimed): the Default formatter returns exactly
\* source:lineNumber:line, no character added, removed or altered.
C5_DefaultExact ==
    ret.fn = "default" => ret.exc = "none" /\ ret.val = PlainLine

\* The pieces of s between its newlines, as str.split("\n") gives them.
RECURSIVE SplitLines(_)
SplitLines(s) ==
    IF \A i \in 1 .. Len(s) : s[i] # "\n" THEN <<s>>
    ELSE LET i == CHOOSE j \in 1 .. Len(s) :
                      s[j] = "\n" /\ \A h \in 1 .. j - 1 : s[h] # "\n"
         IN  <<SubSeq(s, 1, i - 1)>> \o SplitLines(SubSeq(s, i + 1, Len(s)))

\* source:lineNumber:start:line[start:end] for the k-th interval.
MachineLine(k) ==
    args.filename \o <<":">> \o Str(args.line_number) \o <<":">>
        \o Str(args.intervals[k][1]) \o <<":">>
        \o SubSeq(args.line, args.intervals[k][1] + 1, args.intervals[k][2])

RECURSIVE JoinLines(_, _)
JoinLines(n, k) ==
    IF k > n THEN <<>>
    ELSE IF k = n THEN MachineLine(k)
    ELSE MachineLine(k) \o <<"\n">> \o JoinLines(n, k + 1)

\* C6 (as claimed): for a non-empty match list within the line, the Machine
\* formatter returns one line per interval, in order, each
\* source:lineNumber:start:line[start:end] with the full matched substring, and
\* differs from the newline-joined lines by trailing whitespace only.
C6_MachineLines ==
    (/\ ret.fn = "machine"
     /\ args.intervals # <<>>
     /\ \A k \in 1 .. Len(args.intervals) : args.intervals[k][2] <= Len(args.line)) =>
        /\ ret.exc = "none"
        /\ SplitLines(ret.val) = [k \in 1 .. Len(args.intervals) |-> MachineLine(k)]
        /\ ret.val = RStrip(JoinLines(Len(args.intervals), 1))

\* Every interval of the call lies within the line.
WithinLine ==
    \A k \in 1 .. Len(args.intervals) :
        0 <= args.intervals[k][1] /\ args.intervals[k][2] <= Len(args.line)

\* Offset q of the line falls inside some match interval.
Matched(q) ==
    \E k \in 1 .. Len(args.intervals) :
        args.intervals[k][1] <= q /\ q < args.intervals[k][2]

\* C7: for intervals within the line the Underscore formatter returns
\* source:lineNumber:line, a newline, and a second line of the same length that
\* has "^" at position p exactly when p - len(prefix) is inside some match
\* interval, and a space at every other position.
C7_Underscore ==
    (ret.fn = "underscore" /\ WithinLine) =>
        LET n == Len(PlainLine)
            plen == n - Len(args.line)
        IN  /\ ret.exc = "none"
            /\ Len(ret.val) = 2 * n + 1
            /\ SubSeq(ret.val, 1, n) = PlainLine
            /\ ret.val[n + 1] = "\n"
            /\ \A p \in 0 .. n - 1 :
                  ret.val[n + 2 + p] = IF Matched(p - plen) THEN "^" ELSE " "

\* C7 witness: an Underscore call with two intervals within the line, a matched
\* and an unmatched character in the line, and a prefix of five characters.
C7_Witness ==
    /\ ret.fn = "underscore" /\ ret.exc = "none" /\ WithinLine
    /\ Len(args.intervals) = 2
    /\ Len(PlainLine) - Len(args.line) = 5
    /\ \E q \in 0 .. Len(args.line) - 1 : Matched(q)
    /\ \E q \in 0 .. Len(args.line) - 1 : ~Matched(q)

\* s with every start marker and end marker deleted.
RECURSIVE DeleteMarkers(_)
DeleteMarkers(s) ==
    LET a == Len(CHAR_FORMAT_START_PURPLE)
        b == Len(CHAR_FORMAT_END)
    IN  IF s = <<>> THEN <<>>
        ELSE IF Len(s) >= a /\ SubSeq(s, 1, a) = CHAR_FORMAT_START_PURPLE
             THEN DeleteMarkers(SubSeq(s, a + 1, Len(s)))
        ELSE IF Len(s) >= b /\ SubSeq(s, 1, b) = CHAR_FORMAT_END
             THEN DeleteMarkers(SubSeq(s, b + 1, Len(s)))
        ELSE <<Head(s)>> \o DeleteMarkers(Tail(s))

\* C8: for sorted, non-overlapping intervals within the line the Color
\* formatter returns source:lineNumber:line with, for the k-th interval, the
\* start marker inserted before offset start and the end marker before offset
\* end (each shifted by the markers of the intervals before it) and nothing
\* else inserted: deleting the markers gives back source:lineNumber:line.
C8_Color ==
    (ret.fn = "color" /\ WithinLine /\ SortedDisjoint(args.intervals)) =>
        LET a == Len(CHAR_FORMAT_START_PURPLE)
            b == Len(CHAR_FORMAT_END)
            plen == Len(PlainLine) - Len(args.line)
            n == Len(args.intervals)
            at(k, off) == plen + off + (a + b) * (k - 1)
        IN  /\ ret.exc = "none"
            /\ Len(ret.val) = Len(PlainLine) + (a + b) * n
            /\ \A k \in 1 .. n :
                  /\ SubSeq(ret.val, at(k, args.intervals[k][1]) + 1,
                            at(k, args.intervals[k][1]) + a) = CHAR_FORMAT_START_PURPLE
                  /\ SubSeq(ret.val, at(k, args.intervals[k][2]) + a + 1,
                            at(k, args.intervals[k][2]) + a + b) = CHAR_FORMAT_END
            /\ DeleteMarkers(ret.val) = PlainLine

\* C8 witness: a Color call with two sorted, non-overlapping, non-empty
\* intervals within the line.
C8_Witness ==
    /\ ret.fn = "color" /\ ret.exc = "none"
    /\ WithinLine /\ SortedDisjoint(args.intervals)
    /\ Len(args.intervals) = 2
    /\ \A k \in 1 .. 2 : args.intervals[k][1] < args.intervals[k][2]

\* The 1-based position of the k-th line read within its own source.
PositionInSource(k) ==
    Cardinality({j \in 1 .. k : consumed[j].h = consumed[k].h})

\* The match list of the k-th line read.
MatchesOf(k) == find_pattern_in_string(Strip(consumed[k].raw), pattern).val

\* What the k-th line read makes the scanner print: the formatter's result
\* under the source's name and the line's position, or nothing for no match.
OutputOf(k) ==
    IF MatchesOf(k) = <<>> THEN <<>>
    ELSE <<Format(print_line_format, files.list[consumed[k].h], PositionInSource(k),
                  Strip(consumed[k].raw), MatchesOf(k)).val>>

RECURSIVE OutputsUpTo(_)
OutputsUpTo(k) == IF k = 0 THEN <<>> ELSE OutputsUpTo(k - 1) \o OutputOf(k)

\* C9: while no exception has ended the run of a scan of named sources, the
\* lines were read source by source in the order given, the printed outputs are
\* exactly the formatter results of the lines read that have a match, in the
\* order read, each under its source's name and its 1-based position in its own
\* source; a completed run has gone through every source.
C9_Outputs ==
    (UseFiles(files) /\ err = "none") =>
        /\ \A j, k \in 1 .. Len(consumed) :
              j < k => /\ 1 <= consumed[j].h
                       /\ consumed[j].h <= consumed[k].h
                       /\ consumed[k].h <= Len(files.list)
        /\ printed = OutputsUpTo(Len(consumed))
        /\ pc = "done" => file_idx = Len(files.list) + 1

\* C9 witness: a completed scan of two sources in which the second source's
\* first line has no match and its second line has one, and both the first
\* source and the second produced output.
C9_Witness ==
    /\ pc = "done" /\ err = "none" /\ UseFiles(files)
    /\ Len(files.list) = 2
    /\ Len(printed) >= 2
    /\ \E k \in 2 .. Len(consumed) :
          /\ consumed[k].h = 2 /\ consumed[k - 1].h = 2
          /\ MatchesOf(k - 1) = <<>>
          /\ MatchesOf(k) # <<>>
    /\ \E k \in 1 .. Len(consumed) : consumed[k].h = 1 /\ MatchesOf(k) # <<>>

\* The line without its trailing line terminator.
RemoveTerminator(raw) ==
    IF raw # <<>> /\ raw[Len(raw)] = "\n" THEN SubSeq(raw, 1, Len(raw) - 1) ELSE raw

\* C10 (as claimed): the text passed to the matcher and the formatter is the
\* line read with only its trailing line terminator removed.
C10_OnlyTerminatorRemoved ==
    consumed # <<>> => text = RemoveTerminator(consumed[Len(consumed)].raw)

====
